---- MODULE Spec2Model ----
(***************************************************************************)
(* A model of the mangotools rigging toolkit: the naming convention        *)
(* (rig/config), the skin-weight import/export (rig/maya/skin.py), the     *)
(* scene-node wrappers (rig/maya/base.py, control.py, dag.py, optimize.py) *)
(* and the FK chain component (rig/components/fkChain.py).                 *)
(*                                                                         *)
(* Strings.  A Python string is modelled by the list of words it splits    *)
(* into on the naming delimiter '_' (str.split), so 'jnt_def_lip' is       *)
(* <<"jnt","def","lip">>, 'upper_lip' is <<"upper","lip">> and the empty   *)
(* string is <<"">>.  Joining strings with the delimiter is then the       *)
(* concatenation of their word lists and splitting a string gives its      *)
(* words.  None is the empty tuple <<>>, which is no string.               *)
(***************************************************************************)
EXTENDS Integers, Sequences, FiniteSets, TLC

VARIABLES
    kwargs,     \* Naming: the keyword arguments of the last compose_name call
    name,       \* Naming._name
    fields,     \* Naming._node_type, _role, _descriptor, _region, _side
    npc,        \* Naming: "new" | "composed" | "decomposed"
    joints,     \* skin: the names of the joints of the scene, cmds.ls(type='joint')
    meshCount,  \* skin: the vertex count of the mesh, cmds.polyEvaluate(vertex=True)
    skins,      \* skin: the skin clusters on the mesh, cmds.ls(type='skinCluster')
    wfile,      \* skin: the weights file of the mesh on disk, or NoFile
    sres,       \* skin: the last operation and how it ended
    passed,     \* skin: the data the last operation passed to setData, if any
    scene,      \* nodes: the dag nodes, constraints and added attributes of the scene
    library,    \* nodes: the control-shape library file, Config.CONTROL_SHAPES_FILE
    rig,        \* nodes: the FkChain object
    gres,       \* nodes: the last operation and how it ended
    naming,     \* tokens: a Naming object, its _name and its token fields
    twin,       \* tokens: the same object given the same assignments and no reads
    tres        \* tokens: the last property access and what it returned

nvars == <<kwargs, name, fields, npc>>
svars == <<joints, meshCount, skins, wfile, sres, passed>>
gvars == <<scene, library, rig, gres>>
ovars == <<naming, twin, tres>>
vars == <<nvars, svars, gvars, ovars>>

\* what the operations of one part of the toolkit leave alone
NotNaming == <<svars, gvars, ovars>>
NotSkin == <<nvars, gvars, ovars>>
NotNodes == <<nvars, svars, ovars>>
NotTokens == <<nvars, svars, gvars>>

----------------------------------------------------------------------------
(* rig/config/__init__.py                                                  *)

None == <<>>
EmptyStr == <<"">>

\* Python truthiness of an optional string
Truthy(v) == v # None /\ v # EmptyStr

DELIMITER == "_"

SIDES == [left |-> "l", right |-> "r", center |-> "c"]

REGIONS == [top |-> "tp", bottom |-> "bt", outside |-> "ot", inside |-> "in"]

NODETYPES == [joint |-> "jnt", control |-> "ctrl", group |-> "grp",
              null |-> "null", ikHandle |-> "ikh", mesh |-> "geo", geo |-> "geo"]

NoTable == [w \in {} |-> ""]

\* the keys of Config.TokenOrder, in order
TokenKeys == <<"node_type", "role", "descriptor", "region", "side">>

\* Config.TokenOrder[key]: the lookup table of a key
TokenOrder(key) ==
    CASE key = "node_type" -> NODETYPES
      [] key = "region" -> REGIONS
      [] key = "side" -> SIDES
      [] OTHER -> NoTable

Keys == {TokenKeys[i] : i \in 1..Len(TokenKeys)}

\* dict.values()
Values(table) == {table[k] : k \in DOMAIN table}

\* table.get(v, v) on a string v: the table's keys are single words
Get(table, v) == IF Len(v) = 1 /\ v[1] \in DOMAIN table THEN <<table[v[1]]>> ELSE v

\* kwargs.get(key, None)
KwGet(kw, key) == IF key \in DOMAIN kw THEN kw[key] ELSE None

----------------------------------------------------------------------------
(* rig/config/naming.py                                                    *)

\* DELIMITER.join(list of strings)
RECURSIVE Join(_)
Join(strs) ==
    IF strs = <<>> THEN EmptyStr
    ELSE IF Len(strs) = 1 THEN strs[1]
    ELSE strs[1] \o Join(Tail(strs))

\* the loop of compose_name over TokenOrder, from key number i on
RECURSIVE ComposeFrom(_, _)
ComposeFrom(kw, i) ==
    IF i > Len(TokenKeys) THEN <<>>
    ELSE LET key == TokenKeys[i]
         IN  IF key \in DOMAIN kw /\ Truthy(kw[key])
             THEN <<Get(TokenOrder(key), kw[key])>> \o ComposeFrom(kw, i + 1)
             ELSE ComposeFrom(kw, i + 1)

\* mutation: the tokens are emitted with role and descriptor exchanged
ComposeSwapped(NODETYPE, kw) ==
    LET sw == [k \in DOMAIN kw |->
                 IF k = "role" /\ "descriptor" \in DOMAIN kw THEN kw["descriptor"]
                 ELSE IF k = "descriptor" /\ "role" \in DOMAIN kw THEN kw["role"]
                 ELSE kw[k]]
    IN  Join(ComposeFrom(sw, 1))

\* cls.compose_name(**kw) on a class whose NODETYPE attribute is NODETYPE
compose_name(NODETYPE, kw) ==
    LET kw2 == IF ~Truthy(KwGet(kw, "node_type"))
               THEN [k \in DOMAIN kw \cup {"node_type"} |->
                        IF k = "node_type" THEN NODETYPE ELSE kw[k]]
               ELSE kw
    IN  Join(ComposeFrom(kw2, 1))

\* list.remove(x): drops the first occurrence of x
RECURSIVE Remove(_, _)
Remove(lst, x) ==
    IF lst = <<>> THEN <<>>
    ELSE IF Head(lst) = x THEN Tail(lst)
    ELSE <<Head(lst)>> \o Remove(Tail(lst), x)

\* decompose_name, lines 35-37: as many tokens as keys are taken by position
ByPosition(f, toks) ==
    IF Len(toks) = Len(TokenKeys)
    THEN [k \in Keys |-> <<toks[CHOOSE i \in 1..Len(TokenKeys) : TokenKeys[i] = k]>>]
    ELSE f

\* decompose_name, lines 41-52: the loop over a copy of the tokens; st is
\* [f |-> the fields, toks |-> the list the matched tokens are removed from]
RECURSIVE MatchTokens(_, _)
MatchTokens(st, copy) ==
    IF copy = <<>> THEN st
    ELSE LET token == Head(copy)
             st2 == IF token \in Values(SIDES)
                    THEN [f |-> [st.f EXCEPT !["side"] = <<token>>],
                          toks |-> Remove(st.toks, token)]
                    ELSE IF token \in Values(REGIONS)
                    THEN [f |-> [st.f EXCEPT !["region"] = <<token>>],
                          toks |-> Remove(st.toks, token)]
                    ELSE IF token \in Values(NODETYPES)
                    THEN [f |-> [st.f EXCEPT !["node_type"] = <<token>>],
                          toks |-> Remove(st.toks, token)]
                    ELSE st
         IN  MatchTokens(st2, Tail(copy))

\* decompose_name, lines 55-63: the tokens no table knows
Arbitrary(f, toks) ==
    IF Len(toks) = 1 THEN [f EXCEPT !["descriptor"] = <<toks[1]>>]
    ELSE IF Len(toks) = 2
    THEN [f EXCEPT !["role"] = <<toks[1]>>, !["descriptor"] = <<toks[2]>>]
    ELSE f

\* Naming.decompose_name on an object with fields f and name nm
decompose_name(f, nm) ==
    LET st == MatchTokens([f |-> ByPosition(f, nm), toks |-> nm], nm)
    IN  Arbitrary(st.f, st.toks)

NoFields == [k \in Keys |-> None]

\* Naming.__init__(nm, **given): the fields after construction
Naming_init(nm, given) ==
    LET f == [k \in Keys |-> KwGet(given, k)]
    IN  IF \A k \in Keys : ~Truthy(f[k]) THEN decompose_name(f, nm) ELSE f

\* Naming.as_dict
as_dict(f) == f

----------------------------------------------------------------------------
(* rig/maya/skin.py                                                        *)
(*                                                                         *)
(* A node name is the list of its '|'-separated path segments, each the    *)
(* list of its ':'-separated namespace parts: 'ns:jA' is <<<<"ns","jA">>>>.*)
(* Weights are small integers standing for doubles.  The weight array of a *)
(* cluster is flat, vertex-major: entry jj * nInfl + ii (from 0) is the    *)
(* weight of influence ii on vertex jj.  Division is Python 2 integer      *)
(* division, the interpreter of the host this module was written for.      *)

jA == <<<<"jA">>>>
jB == <<<<"jB">>>>
jX == <<<<"jX">>>>
nsjA == <<<<"ns", "jA">>>>

\* ':' in string, '|' in string
HasColon(string) == \E i \in 1..Len(string) : Len(string[i]) > 1
HasBar(string) == Len(string) > 1

\* s.split(':')[-1] of one path segment
LastPart(seg) == <<seg[Len(seg)]>>

\* SkinCluster.removeNamespaceFrom
removeNamespaceFrom(string) ==
    IF HasColon(string) /\ HasBar(string)
    THEN [i \in 1..Len(string) |-> LastPart(string[i])]
    ELSE IF HasColon(string) THEN <<LastPart(string[1])>>
    ELSE string

\* d[key] = value on a dictionary d
DictSet(d, key, value) ==
    [k \in DOMAIN d \cup {key} |-> IF k = key THEN value ELSE d[k]]

\* del d[key]
DictDel(d, key) == [k \in DOMAIN d \ {key} |-> d[k]]

EmptyDict == [k \in {} |-> <<>>]

\* the weights of influence number idx (from 1) over the vertices
Column(c, idx) ==
    LET nInfl == Len(c.infl)
        inflPerVtx == Len(c.weights) \div nInfl
    IN  [jj \in 1..inflPerVtx |-> c.weights[(jj - 1) * nInfl + idx]]

\* getInfluenceWeights: the loop over the influences from number idx on,
\* storing each column under the influence's name without namespace
RECURSIVE InfluenceWeightsFrom(_, _, _)
InfluenceWeightsFrom(c, d, idx) ==
    IF idx > Len(c.infl) THEN d
    ELSE InfluenceWeightsFrom(
            c, DictSet(d, removeNamespaceFrom(c.infl[idx]), Column(c, idx)), idx + 1)

\* SkinCluster.getInfluenceWeights on a fresh data dictionary
getInfluenceWeights(c) == InfluenceWeightsFrom(c, EmptyDict, 1)

\* SkinCluster.getData: self.data of an object on cluster c
getData(c) ==
    [weights |-> getInfluenceWeights(c),
     blendWeights |-> c.blend,
     attrs |-> c.attrs,
     name |-> c.name]

\* setWeights, the inner loop: the number of the first influence, from ii
\* on, whose name without namespace is imported_infl; 0 when there is none
RECURSIVE FirstMatch(_, _, _)
FirstMatch(infl, imported_infl, ii) ==
    IF ii > Len(infl) THEN 0
    ELSE IF removeNamespaceFrom(infl[ii]) = imported_infl THEN ii
    ELSE FirstMatch(infl, imported_infl, ii + 1)

\* SkinCluster.setWeights: every imported influence overwrites the column
\* of the first influence of the cluster that has its name
setWeights(c, data) ==
    LET nInfl == Len(c.infl)
        Source(ii) == {k \in DOMAIN data.weights : FirstMatch(c.infl, k, 1) = ii}
    IN  [p \in 1..Len(c.weights) |->
            LET ii == ((p - 1) % nInfl) + 1
                jj == ((p - 1) \div nInfl) + 1
            IN  IF Source(ii) # {}
                THEN data.weights[CHOOSE k \in Source(ii) : TRUE][jj]
                ELSE c.weights[p]]

\* SkinCluster.setBlendWeights
setBlendWeights(c, data) == data.blendWeights

\* SkinCluster.setData: the cluster after the data is applied
setData(c, data) ==
    [c EXCEPT !.weights = setWeights(c, data),
              !.blend = setBlendWeights(c, data),
              !.attrs = data.attrs]

\* remapJoints, lines 349-359
Stripped(js) == {removeNamespaceFrom(x) : x \in js}
UnusedImports(data, js) == {j \in DOMAIN data.weights : j \notin Stripped(js)}
NoMatch(data, js) == {x \in Stripped(js) : x \notin DOMAIN data.weights}

\* what the user can leave in WeightsRemapDialog.mapping: every imported
\* influence is mapped at most once, and a taken scene influence leaves the list
Mappings(unused, nomatch) ==
    UNION {{m \in [S -> nomatch] : \A a, b \in S : a # b => m[a] # m[b]} :
              S \in SUBSET unused}

\* remapJoints, lines 366-368: the keys of the mapping are renamed
RECURSIVE ApplyMapping(_, _)
ApplyMapping(w, m) ==
    IF DOMAIN m = {} THEN w
    ELSE LET src == CHOOSE x \in DOMAIN m : TRUE
         IN  ApplyMapping(DictDel(DictSet(w, m[src], w[src]), src), DictDel(m, src))

\* SkinCluster.remapJoints with the mapping m the dialog ended with
remapJoints(data, js, m) ==
    IF UnusedImports(data, js) # {} /\ NoMatch(data, js) # {}
    THEN [data EXCEPT !.weights = ApplyMapping(data.weights, m)]
    ELSE data

\* the mappings the dialog can end with; no dialog, no mapping
DialogMappings(data, js) ==
    IF UnusedImports(data, js) # {} /\ NoMatch(data, js) # {}
    THEN Mappings(UnusedImports(data, js), NoMatch(data, js))
    ELSE {EmptyDict}

----------------------------------------------------------------------------
(* The host scene, as the toolkit uses it (maya.cmds)                      *)
(*                                                                         *)
(* A dag node is a number; scene.nodes[i] holds its name, its parent (0 is *)
(* the world), its shapes, its override colour (0: not enabled), whether   *)
(* it is tagged as a controller and a label for where it stands.  The host *)
(* keeps paths unambiguous, so the wrappers, which hold dag paths, refer   *)
(* to nodes by number; names given by a caller are looked up.              *)

Node(nm, par, kind, pos) ==
    [name |-> nm, parent |-> par, kind |-> kind, shapes |-> <<>>,
     color |-> 0, ctl |-> FALSE, pos |-> pos]

\* a constraint of the host, of a driver on a driven node
Constraint(kind, driver, driven) == [kind |-> kind, driver |-> driver, driven |-> driven]

Ids(sc) == 1..Len(sc.nodes)

\* cmds.objExists(name)
objExists(sc, nm) == \E i \in Ids(sc) : sc.nodes[i].name = nm

\* the node a name stands for
Resolve(sc, nm) == CHOOSE i \in Ids(sc) : sc.nodes[i].name = nm

\* a is i or an ancestor of i
RECURSIVE IsAncestor(_, _, _)
IsAncestor(sc, a, i) ==
    IF i = 0 THEN FALSE
    ELSE IF i = a THEN TRUE
    ELSE IsAncestor(sc, a, sc.nodes[i].parent)

\* the state of a running operation: the scene, the exception being raised
\* ("none" while it runs), whether a host command has failed and whether a
\* failure was caught, and whether a warning or an error was logged
Run(sc) == [sc |-> sc, err |-> "none", host |-> FALSE, caught |-> FALSE, logged |-> FALSE]
Raise(r, e) == [r EXCEPT !.err = e]
HostFailsWith(r, e) == [r EXCEPT !.err = e, !.host = TRUE]
HostFails(r) == HostFailsWith(r, "RuntimeError")
SetNode(r, i, nd) == [r EXCEPT !.sc.nodes[i] = nd]

\* the node a name stands for, 0 when no node has the name
Lookup(sc, nm) == IF objExists(sc, nm) THEN Resolve(sc, nm) ELSE 0

\* cmds.parent(child, par): the host refuses a parent that does not exist,
\* that is the node itself or below it, and a parent the node already has
cmds_parent(r, child, par) ==
    IF par \notin Ids(r.sc) \/ IsAncestor(r.sc, child, par) \/ r.sc.nodes[child].parent = par
    THEN HostFails(r)
    ELSE SetNode(r, child, [r.sc.nodes[child] EXCEPT !.parent = par])

\* cmds.createNode("transform", name=nm): a new node under the world
createNode(r, nm) ==
    [r EXCEPT !.sc.nodes = Append(@, Node(nm, 0, "transform", 0))]

\* the nodes cmds.duplicate copies: the node and everything below it
Below(sc, i) == {d \in Ids(sc) : IsAncestor(sc, i, d)}

\* the number of the copy of d when node i is duplicated
CopyOf(sc, i, d) == Len(sc.nodes) + Cardinality({e \in Below(sc, i) : e <= d})

\* cmds.duplicate(i, name=nm): the copies keep their place in the hierarchy,
\* the copy of i takes the new name and stays under i's parent
duplicate(r, i, nm) ==
    LET sc == r.sc
        D == Below(sc, i)
        Orig(k) == CHOOSE d \in D : CopyOf(sc, i, d) = Len(sc.nodes) + k
        Copy(d) == IF d = i
                   THEN [sc.nodes[d] EXCEPT !.name = nm, !.ctl = FALSE]
                   ELSE [sc.nodes[d] EXCEPT !.parent = CopyOf(sc, i, @), !.ctl = FALSE]
    IN  [r EXCEPT !.sc.nodes = @ \o [k \in 1..Cardinality(D) |-> Copy(Orig(k))]]

----------------------------------------------------------------------------
(* rig/maya/base.py                                                        *)

\* mutation: a failure of cmds.parent is not caught
base_parent_raising(r, self, par) == cmds_parent(r, self, par)

\* MayaBaseNode.parent (setter): a failure of cmds.parent is logged
base_parent_set(r, self, par) ==
    LET t == cmds_parent(r, self, par)
    IN  IF t.err = "RuntimeError"
        THEN [r EXCEPT !.host = TRUE, !.caught = TRUE, !.logged = TRUE]
        ELSE t

\* linAlg.snap(A, B): A takes the place of B
snap(r, A, B) == SetNode(r, A, [r.sc.nodes[A] EXCEPT !.pos = r.sc.nodes[B].pos])

\* MayaBaseNode.snap_to(node) with the name of a node
snap_to(r, self, node) ==
    IF ~objExists(r.sc, node) THEN Raise(r, "AssertionError")
    ELSE snap(r, self, Resolve(r.sc, node))

----------------------------------------------------------------------------
(* rig/maya/control.py                                                     *)

CONTROL == <<"ctrl">>
NULL == "null"

\* the words of the model that hold the text 'null'
NullWords == {"null", "nullA"}

\* CONFIG.NULL in name
HasNULL(nm) == \E k \in 1..Len(nm) : nm[k] \in NullWords

\* Control.null, the loop: the last node, going up from p, of an unbroken
\* run of nodes whose names hold 'null'
RECURSIVE TopNull(_, _)
TopNull(sc, p) ==
    LET up == sc.nodes[p].parent
    IN  IF up # 0 /\ HasNULL(sc.nodes[up].name) THEN TopNull(sc, up) ELSE p

\* Control.null: 0 stands for None
null(sc, self) ==
    LET p == sc.nodes[self].parent
    IN  IF p # 0 /\ HasNULL(sc.nodes[p].name) THEN TopNull(sc, p) ELSE 0

\* mutation: the control itself is parented, whether or not it has a null
control_parent_direct(r, self, new_parent) == base_parent_set(r, self, new_parent)

\* Control.parent (setter).  new_parent is a path string and
\* self.null.parent a node object or None, so the test of line 322,
\* new_parent != self.null.parent, is always true
control_parent_set(r, self, new_parent) ==
    IF null(r.sc, self) = 0
    THEN base_parent_set(r, self, new_parent)
    ELSE base_parent_set(r, null(r.sc, self), new_parent)

COL_TO_INT == [red |-> 13, yellow |-> 17, blue |-> 6, green |-> 7]

\* a colour given by name, a colour given by number
Named(c) == [name |-> c]
Numbered(n) == [num |-> n]

\* Control.color (setter)
color_set(r, self, val) ==
    IF "name" \in DOMAIN val
    THEN IF val.name \notin DOMAIN COL_TO_INT THEN Raise(r, "KeyError")
         ELSE SetNode(r, self, [r.sc.nodes[self] EXCEPT !.color = COL_TO_INT[val.name]])
    ELSE SetNode(r, self, [r.sc.nodes[self] EXCEPT !.color = val.num])

\* Control.get_shape_from(obj, destroy=True, replace): the shapes of the
\* temporary curve end under the control
get_shape_from(r, self, shapes, replace) ==
    SetNode(r, self,
            [r.sc.nodes[self] EXCEPT !.shapes = (IF replace THEN <<>> ELSE @) \o shapes])

\* str.lower() on the shape names of the model
Lower(w) == IF w = "Circle" THEN "circle" ELSE w

\* set_shape, lines 339-343: one get_shape_from per child shape of the entry
RECURSIVE ChildShapes(_, _, _, _)
ChildShapes(r, self, children, replace) ==
    IF children = <<>> THEN r
    ELSE ChildShapes(get_shape_from(r, self, <<Head(children)>>, replace),
                     self, Tail(children), replace)

\* mutation: the shapes under the control are deleted before the library
\* is read
set_shape_clearing(r, lib, self, new_shape, replace) ==
    LET cleared == get_shape_from(r, self, <<>>, TRUE)
    IN  IF Lower(new_shape) = "circle"
        THEN get_shape_from(r, self, <<"circle">>, replace)
        ELSE IF ~lib.present THEN Raise(cleared, "AssertionError")
        ELSE IF new_shape \notin DOMAIN lib.shapes THEN Raise(cleared, "KeyError")
        ELSE ChildShapes(cleared, self, lib.shapes[new_shape], replace)

\* Control.set_shape(new_shape, replace) with the library file lib
set_shape(r, lib, self, new_shape, replace) ==
    IF Lower(new_shape) = "circle"
    THEN get_shape_from(r, self, <<"circle">>, replace)
    ELSE IF ~lib.present THEN Raise(r, "AssertionError")
    ELSE IF new_shape \notin DOMAIN lib.shapes THEN Raise(r, "KeyError")
    ELSE ChildShapes(r, self, lib.shapes[new_shape], replace)

\* the steps of an operation: g runs unless r is raising
Then(r, g(_)) == IF r.err # "none" THEN r ELSE g(r)

\* Control.__init__, lines 54-56: the node is tagged as a controller unless
\* the host answers that the selection is one already
tag(r, self, selectionTagged) ==
    IF selectionTagged THEN r
    ELSE SetNode(r, self, [r.sc.nodes[self] EXCEPT !.ctl = TRUE])

\* Control.create(descriptor, role, side, snap_to, shape), color 'yellow':
\* the new control is the last node of the resulting scene.  createNode
\* leaves the new node selected, so the constructor tags it
create(r, lib, descriptor, role, side, snapTo, shape) ==
    LET nm == compose_name(CONTROL, [node_type |-> CONTROL, descriptor |-> descriptor,
                                     role |-> role, region |-> None, side |-> side])
        r1 == createNode(r, nm)
        self == Len(r1.sc.nodes)
        r2 == tag(r1, self, FALSE)
        r3 == snap_to(r2, self, snapTo)
        r4 == Then(r3, LAMBDA x : set_shape(x, lib, self, shape, TRUE))
    IN  Then(r4, LAMBDA x : color_set(x, self, Named("yellow")))

\* Control.insert_parent on a control whose naming fields are f
insert_parent(r, self, f) ==
    LET orig_par == null(r.sc, self)
        null_name == compose_name(CONTROL, [f EXCEPT !["node_type"] = <<NULL>>])
        dup == CopyOf(r.sc, self, self)
        r1 == duplicate(r, self, null_name)
        r2 == SetNode(r1, dup, [r1.sc.nodes[dup] EXCEPT !.shapes = <<>>])
        r3 == control_parent_set(r2, self, dup)
    IN  IF orig_par # 0 THEN Then(r3, LAMBDA x : base_parent_set(x, dup, orig_par)) ELSE r3

\* Control.offset(n)
RECURSIVE offset(_, _, _, _)
offset(r, self, f, n) ==
    IF n <= 0 \/ r.err # "none" THEN r
    ELSE offset(insert_parent(r, self, f), self, f, n - 1)

\* Control.__init__(nm, **given): the naming fields after construction
Control_init(nm, given) ==
    LET f == [k \in Keys |-> IF k = "node_type" THEN CONTROL ELSE KwGet(given, k)]
    IN  IF \A k \in Keys \ {"node_type"} : ~Truthy(f[k]) THEN decompose_name(f, nm) ELSE f

\* the outcome of an operation that ended in the run state r: the names it
\* was called with, whether one of them names a node the scene lacks, and
\* what it returned
Result(op, r, arg, missing, ret) ==
    [op |-> op, outcome |-> IF r.err = "none" THEN "ok" ELSE r.err,
     host |-> r.host, caught |-> r.caught, logged |-> r.logged, arg |-> arg,
     missing |-> missing, ret |-> ret, steps |-> 0]

NoLibrary == [present |-> FALSE]
Library(shapes) == [present |-> TRUE, shapes |-> shapes]

EmptyScene == [nodes |-> <<>>, cons |-> {}, attrs |-> {}, unknown |-> <<>>]

NoRig == [joints |-> <<>>, descriptor |-> None, color |-> None, shape |-> "sphere",
          controls |-> <<>>, installed |-> FALSE, constraints |-> <<>>]

\* the state of the node operations in a specification that leaves them alone
SceneIdle ==
    /\ scene = EmptyScene
    /\ library = NoLibrary
    /\ rig = NoRig
    /\ gres = Result("none", Run(EmptyScene), <<>>, FALSE, <<>>)

----------------------------------------------------------------------------
(* The skin-weight operations on the one mesh of the scene                 *)

MaxVtx == 2

NoFile == [present |-> FALSE]
File(data) == [present |-> TRUE, data |-> data]

NotPassed == [reached |-> FALSE]
Passed(data) == [reached |-> TRUE, data |-> data]

Did(op, outcome) == [op |-> op, outcome |-> outcome]

\* the skinningMethod and normalizeWeights attributes of a new cluster
DefaultAttrs == [skinningMethod |-> 0, normalizeWeights |-> 1]

\* mutation: only a file with too few vertices is refused
CountTooSmall(n, importedVtx) == importedVtx < n

\* createAndImport line 255, importWeights line 387: meshCount != importedVtx
VertexCountMismatch(n, importedVtx) == n # importedVtx

\* cmds.objExists on a joint name
jointExists(js, nm) == nm \in js

\* every order a dictionary can list the keys ks in
Orderings(ks) ==
    {q \in [1..Cardinality(ks) -> ks] : \A a, b \in DOMAIN q : a # b => q[a] # q[b]}

\* cmds.skinCluster(joints, mesh, tsb=True, nw=2, n=data['name']): the new
\* cluster; setData overwrites the weights the host binds with, because
\* every influence of the new cluster is a key of the data
Bind(infl, n, nm) ==
    [infl |-> infl,
     weights |-> [p \in 1..(n * Len(infl)) |-> 0],
     blend |-> [i \in 1..n |-> 0],
     attrs |-> DefaultAttrs,
     name |-> nm]

\* the end of an operation that changes nothing in the scene
Ends(op, outcome) ==
    /\ sres' = Did(op, outcome)
    /\ passed' = NotPassed
    /\ UNCHANGED <<joints, meshCount, skins, wfile, NotSkin>>

\* the end of an import that reached setData with data d on cluster c
Applies(op, c, d) ==
    /\ sres' = Did(op, "ok")
    /\ passed' = Passed(d)
    /\ skins' = <<setData(c, d)>>
    /\ UNCHANGED <<joints, meshCount, wfile, NotSkin>>

\* SkinCluster.createAndImport(mesh, path)
CreateAndImport ==
    IF ~wfile.present THEN Ends("createAndImport", "IOError")
    ELSE IF VertexCountMismatch(meshCount, Len(wfile.data.blendWeights))
    THEN Ends("createAndImport", "RuntimeError")
    ELSE \E m \in DialogMappings(wfile.data, joints) :
           LET data == remapJoints(wfile.data, joints, m)
           IN  IF skins # <<>>
               THEN Applies("createAndImport", skins[1], data)
               ELSE IF \E j \in DOMAIN data.weights : ~jointExists(joints, j)
               THEN Ends("createAndImport", "HostError")
               ELSE \E infl \in Orderings(DOMAIN data.weights) :
                      Applies("createAndImport", Bind(infl, meshCount, data.name), data)

\* SkinCluster(mesh).importWeights(path)
ImportWeights ==
    IF skins = <<>> THEN Ends("importWeights", "ValueError")
    ELSE IF ~wfile.present THEN Ends("importWeights", "IOError")
    ELSE IF VertexCountMismatch(meshCount, Len(wfile.data.blendWeights))
    THEN Ends("importWeights", "RuntimeError")
    ELSE \E m \in DialogMappings(wfile.data, joints) :
           Applies("importWeights", skins[1], remapJoints(wfile.data, joints, m))

\* SkinCluster.export(mesh, path)
Export ==
    IF skins = <<>> THEN Ends("export", "ValueError")
    ELSE /\ wfile' = File(getData(skins[1]))
         /\ sres' = Did("export", "ok")
         /\ passed' = NotPassed
         /\ UNCHANGED <<joints, meshCount, skins, NotSkin>>

\* the scenes: the joints of the scene
Scenes == {{jA}, {jA, jB}, {jA, nsjA}}

Weights == {0, 1}

\* the clusters a scene can hold on a mesh of n vertices
Clusters(js, n) ==
    UNION {{[infl |-> infl, weights |-> w, blend |-> b,
             attrs |-> DefaultAttrs, name |-> "skinCluster1"] :
               w \in [1..(n * Len(infl)) -> Weights], b \in [1..n -> Weights]} :
           infl \in UNION {Orderings(S) : S \in SUBSET js \ {{}}}}

\* weight files written elsewhere: one or two influences, n vertices
ForeignKeys == {jA, jB, jX}

ForeignFiles ==
    UNION {{File([weights |-> [k \in S |-> [i \in 1..n |-> v[k]]],
                  blendWeights |-> [i \in 1..n |-> 1],
                  attrs |-> [skinningMethod |-> 1, normalizeWeights |-> 0],
                  name |-> "skinCluster2"]) :
               v \in [S -> Weights]} :
           <<S, n>> \in {T \in SUBSET ForeignKeys : Cardinality(T) \in {1, 2}}
                        \X (1..MaxVtx)}

\* the state of the parts of the toolkit a specification leaves alone
SkinIdle ==
    /\ joints = {}
    /\ meshCount = 0
    /\ skins = <<>>
    /\ wfile = NoFile
    /\ sres = Did("none", "none")
    /\ passed = NotPassed

\* no Naming object is under test
NoObject == [name |-> EmptyStr, f |-> NoFields]
Access(op, key, val, ret) ==
    [op |-> op, key |-> key, val |-> val, ret |-> ret, steps |-> 0, changed |-> FALSE,
     reads |-> 0]

TokensIdle ==
    /\ naming = NoObject
    /\ twin = NoObject
    /\ tres = Access("none", "", None, None)

NamingIdle ==
    /\ kwargs = EmptyDict
    /\ name = EmptyStr
    /\ fields = NoFields
    /\ npc = "idle"
    /\ TokensIdle

SkinInit ==
    /\ joints \in Scenes
    /\ meshCount \in 1..MaxVtx
    /\ skins \in {<<>>} \cup {<<c>> : c \in Clusters(joints, meshCount)}
    /\ wfile \in {NoFile} \cup ForeignFiles
    /\ sres = Did("none", "none")
    /\ passed = NotPassed
    /\ NamingIdle
    /\ SceneIdle

SkinNext == CreateAndImport \/ ImportWeights \/ Export

SpecSkin == SkinInit /\ [][SkinNext]_vars

----------------------------------------------------------------------------
(* The naming specification: a name is composed from keyword arguments and *)
(* a Naming object is built from the composed name.                        *)

\* the values a caller passes for each key: human words, short codes, words
\* no table knows, a value holding the delimiter, the empty string and None
NodeTypeArgs == {None, EmptyStr, <<"joint">>, <<"jnt">>, <<"widget">>}
RoleArgs == {None, EmptyStr, <<"def">>, <<"roll">>}
DescriptorArgs == {None, <<"lip">>, <<"l">>, <<"upper", "lip">>}
RegionArgs == {None, <<"top">>, <<"tp">>}
SideArgs == {None, <<"left">>, <<"l">>}

ArgsOf(key) ==
    CASE key = "node_type" -> NodeTypeArgs
      [] key = "role" -> RoleArgs
      [] key = "descriptor" -> DescriptorArgs
      [] key = "region" -> RegionArgs
      [] OTHER -> SideArgs

\* every keyword dictionary over a subset of the keys
KwargsSet == UNION {{kw \in [S -> UNION {ArgsOf(k) : k \in S}] :
                        \A k \in S : kw[k] \in ArgsOf(k)} : S \in SUBSET Keys}

NamingInit ==
    /\ kwargs = EmptyDict
    /\ name = EmptyStr
    /\ fields = NoFields
    /\ npc = "new"
    /\ SkinIdle
    /\ SceneIdle
    /\ TokensIdle

\* name = Naming.compose_name(**kw)
ComposeName ==
    /\ npc = "new"
    /\ \E kw \in KwargsSet :
         /\ kwargs' = kw
         /\ name' = compose_name(None, kw)
    /\ npc' = "composed"
    /\ UNCHANGED <<fields, NotNaming>>

\* Naming(name): the constructor called with the composed name alone
Construct ==
    /\ npc = "composed"
    /\ fields' = Naming_init(name, [k \in {} |-> None])
    /\ npc' = "decomposed"
    /\ UNCHANGED <<kwargs, name, NotNaming>>

NamingNext == ComposeName \/ Construct

SpecNaming == NamingInit /\ [][NamingNext]_vars

----------------------------------------------------------------------------
(* rig/components/fkChain.py                                               *)

\* Naming.side, lines 112-119: the pattern of side token t, the delimiter,
\* the token and an optional digit, letter case ignored, matches at the
\* start of word w of the model
Hit(w, t) ==
    CASE w \in {"l", "L", "lip", "left", "leg"} -> t = "l"
      [] w \in {"r", "roll", "rib", "right"} -> t = "r"
      [] w \in {"c", "ctrl", "center", "corner"} -> t = "c"
      [] OTHER -> FALSE

\* the text of w the pattern matches after the delimiter
HitText(w) ==
    CASE w = "L" -> "L"
      [] w \in {"l", "lip", "left", "leg"} -> "l"
      [] w \in {"r", "roll", "rib", "right"} -> "r"
      [] OTHER -> "c"

\* every order SIDES.values() can list the tokens in
SideOrders == Orderings(Values(SIDES))

\* Naming.side (getter) on an object with fields f and name nm, with the
\* tokens tried in the given order: the match starts with the delimiter
side_get(f, nm, order) ==
    LET hits == {i \in 1..Len(order) : \E k \in 2..Len(nm) : Hit(nm[k], order[i])}
    IN  IF Truthy(f["side"]) \/ hits = {} THEN f["side"]
        ELSE LET i == CHOOSE h \in hits : \A g \in hits : h <= g
                 ks == {k \in 2..Len(nm) : Hit(nm[k], order[i])}
                 k == CHOOSE a \in ks : \A b \in ks : a <= b
             IN  <<"", HitText(nm[k])>>

\* FkChain.install, lines 35-41: the colour of the new control
install_color(r, rg, ctrl, side) ==
    IF rg.color = None
    THEN IF side = <<"l">> THEN color_set(r, ctrl, Named("blue"))
         ELSE IF side = <<"r">> THEN color_set(r, ctrl, Named("red"))
         ELSE r
    ELSE color_set(r, ctrl, Named(rg.color[1]))

\* FkChain.install, the loop from joint number k on: ancestor is the last
\* control made (0: none), controls the list made so far
RECURSIVE installFrom(_, _, _, _, _, _, _)
installFrom(r, lib, rg, order, k, ancestor, controls) ==
    IF r.err # "none" \/ k > Len(rg.joints) THEN [r |-> r, controls |-> controls]
    ELSE LET jn == rg.joints[k]
         IN  IF ~objExists(r.sc, jn)
             THEN [r |-> Raise(r, "AssertionError"), controls |-> controls]
             ELSE LET jf == Naming_init(jn, EmptyDict)
                      side == side_get(jf, jn, order)
                      desc == IF Truthy(rg.descriptor) THEN rg.descriptor
                              ELSE jf["descriptor"]
                      given == [descriptor |-> desc, role |-> <<"fk">>,
                                region |-> None, side |-> side]
                      ctrl == Len(r.sc.nodes) + 1
                      cf == Control_init(<<>>, given)
                      r1 == create(r, lib, desc, <<"fk">>, side, jn, rg.shape)
                      r2 == Then(r1, LAMBDA x : install_color(x, rg, ctrl, side))
                      r3 == Then(r2, LAMBDA x : offset(x, ctrl, cf, 1))
                      r4 == IF ancestor # 0
                            THEN Then(r3, LAMBDA x : control_parent_set(x, ctrl, ancestor))
                            ELSE r3
                  IN  installFrom(r4, lib, rg, order, k + 1, ctrl, Append(controls, ctrl))

\* FkChain.install
install(r, lib, rg, order) == installFrom(r, lib, rg, order, 1, 0, <<>>)

\* zip(self.controls, self.joints): as many pairs as the shorter list has
Zip(controls, js) ==
    [k \in 1..(IF Len(controls) < Len(js) THEN Len(controls) ELSE Len(js)) |->
        <<controls[k], js[k]>>]

\* FkChain.connect, the loop: one parent constraint per pair
connect_pairs(r, pairs) ==
    [r |-> [r EXCEPT !.sc.cons = @ \cup
                {Constraint("parent", pairs[k][1], Resolve(r.sc, pairs[k][2])) :
                     k \in 1..Len(pairs)}],
     constraints |-> [k \in 1..Len(pairs) |->
                         Constraint("parent", pairs[k][1], Resolve(r.sc, pairs[k][2]))]]

\* mutation: a rig without controls is connected as one with no pairs
connect_unguarded(r, rg) == connect_pairs(r, Zip(rg.controls, rg.joints))

\* FkChain.connect: self.controls exists only once install has returned
connect(r, rg) ==
    IF ~rg.installed THEN [r |-> Raise(r, "AttributeError"), constraints |-> <<>>]
    ELSE connect_pairs(r, Zip(rg.controls, rg.joints))

----------------------------------------------------------------------------
(* The chain specification: an FkChain is built on a chain of joints and   *)
(* installed.                                                              *)

MaxJoints == 3

\* the joints: a deforming joint, its roll joint as add_no_roll_joints
\* names it, a joint without a side token, one whose side is in capitals
\* and one that follows no convention
JointNames == {<<"jnt", "def", "arm", "l">>, <<"jnt", "roll", "arm01", "l">>,
               <<"jnt", "def", "lip">>, <<"jnt", "def", "rib", "L">>, <<"spine">>}

\* the joint lists a rig is built on: distinct joints, at most MaxJoints
JointLists ==
    UNION {{q \in [1..n -> JointNames] : \A a, b \in 1..n : a # b => q[a] # q[b]} :
           n \in 0..MaxJoints}

\* the joints in the scene, each under the one before it
Chain(js) ==
    [EmptyScene EXCEPT !.nodes = [k \in 1..Len(js) |-> Node(js[k], k - 1, "joint", k)]]

\* the shape library as shipped, and a library that lacks the sphere
Libraries == {NoLibrary,
              Library([sphere |-> <<"sphereA", "sphereB">>, square |-> <<"squareA">>]),
              Library([square |-> <<"squareA">>])}

\* FkChain(joints, shape, descriptor, color)
FkChain(js, shape, descriptor, color) ==
    [NoRig EXCEPT !.joints = js, !.shape = shape, !.descriptor = descriptor,
                  !.color = color]

FkInit ==
    /\ \E js \in JointLists :
         /\ scene = Chain(js)
         /\ rig \in {FkChain(js, sh, d, c) : sh \in {"sphere", "circle"},
                                            d \in {None, <<"leg">>},
                                            c \in {None, <<"green">>}}
    /\ library \in Libraries
    /\ gres = Result("none", Run(EmptyScene), <<>>, FALSE, <<>>)
    /\ NamingIdle
    /\ SkinIdle

\* rig.install(), the first call on the rig
Install ==
    /\ gres.op = "none"
    /\ \E order \in SideOrders :
         LET out == install(Run(scene), library, rig, order)
         IN  /\ scene' = out.r.sc
             /\ rig' = IF out.r.err = "none"
                       THEN [rig EXCEPT !.controls = out.controls, !.installed = TRUE]
                       ELSE rig
             /\ gres' = Result("install", out.r, <<>>, FALSE, <<>>)
    /\ UNCHANGED <<library, NotNodes>>

\* rig.connect(), before or after install
Connect ==
    /\ gres.op \in {"none", "install"}
    /\ LET out == connect(Run(scene), rig)
       IN  /\ scene' = out.r.sc
           /\ rig' = IF out.r.err = "none"
                     THEN [rig EXCEPT !.constraints = out.constraints]
                     ELSE rig
           /\ gres' = Result("connect", out.r, <<>>, FALSE, <<>>)
    /\ UNCHANGED <<library, NotNodes>>

FkNext == Install \/ Connect

SpecFk == FkInit /\ [][FkNext]_vars

----------------------------------------------------------------------------
(* rig/maya/dag.py, and the operations of rig/maya/base.py and             *)
(* rig/maya/control.py that take the name of a node                        *)

\* dag._process_nodes(nodes)
process_nodes(r, nodes) ==
    IF \E k \in 1..Len(nodes) : ~objExists(r.sc, nodes[k])
    THEN Raise(r, "RuntimeError")
    ELSE r

\* dag.get_positions(nodes), once the nodes are known to exist
get_positions(sc, nodes) ==
    [k \in 1..Len(nodes) |-> sc.nodes[Resolve(sc, nodes[k])].pos]

\* MayaBaseNode.__init__(nm): the scene is only read
MayaBaseNode_init(r, nm) ==
    IF ~objExists(r.sc, nm) THEN Raise(r, "AssertionError")
    ELSE process_nodes(r, <<nm>>)

\* Control(nm)
Control_new(r, nm, selectionTagged) ==
    LET r1 == MayaBaseNode_init(r, nm)
    IN  Then(r1, LAMBDA x : tag(x, Resolve(x.sc, nm), selectionTagged))

\* mutation: an object that is not there is passed over in silence
drive_parented_silent(r, self, obj) ==
    IF objExists(r.sc, obj) THEN cmds_parent(r, Resolve(r.sc, obj), self) ELSE r

\* Control.drive_parented(obj) with the name of an object
drive_parented(r, self, obj) ==
    IF objExists(r.sc, obj) THEN cmds_parent(r, Resolve(r.sc, obj), self)
    ELSE Raise(r, "RuntimeError")

\* Control.drive_constrained(obj, p, r, s)
drive_constrained(r, self, obj, p, rot, s) ==
    IF ~objExists(r.sc, obj) THEN r
    ELSE LET o == Resolve(r.sc, obj)
             scale == IF s THEN {Constraint("scale", self, o)} ELSE {}
             other == IF p /\ rot THEN {Constraint("parent", self, o)}
                      ELSE IF p THEN {Constraint("point", self, o)}
                      ELSE IF rot THEN {Constraint("orient", self, o)}
                      ELSE {}
         IN  [r EXCEPT !.sc.cons = @ \cup scale \cup other]

\* Control.space_switch(spaces): the constraint on the null is made before
\* the attributes are added; without a null the host is handed None
space_switch(r, self, spaces) ==
    IF \E k \in 1..Len(spaces) : ~objExists(r.sc, spaces[k])
    THEN Raise(r, "AssertionError")
    ELSE IF null(r.sc, self) = 0 THEN HostFails(r)
    ELSE LET n == null(r.sc, self)
             r1 == [r EXCEPT !.sc.cons = @ \cup
                        {Constraint("parent", Resolve(r.sc, spaces[k]), n) :
                             k \in 1..Len(spaces)}]
         IN  IF <<self, "SPACE">> \in r1.sc.attrs THEN Raise(r1, "RuntimeError")
             ELSE [r1 EXCEPT !.sc.attrs = @ \cup {<<self, "SPACE">>, <<self, "spaces">>,
                                                  <<n, "drivenKeys">>}]

\* load_shapes, lines 253-265: the shapes of one entry go under con
RECURSIVE load_entry(_, _, _)
load_entry(r, con, shapes) ==
    IF shapes = <<>> \/ r.err # "none" THEN r
    ELSE LET r1 == color_set(r, con, Head(shapes).color)
             r2 == Then(r1, LAMBDA x : get_shape_from(x, con, <<Head(shapes).shape>>, FALSE))
         IN  load_entry(r2, con, Tail(shapes))

\* Control.load_shapes, the loop over the objects of the file from number k
\* on.  An object without shapes hands None to cmds.delete, which the host
\* accepts or refuses
RECURSIVE load_from(_, _, _, _, _)
load_from(r, file, k, emptyDeleteFails, selectionTagged) ==
    IF r.err # "none" \/ k > Len(file) THEN r
    ELSE IF ~objExists(r.sc, file[k].obj)
    THEN load_from([r EXCEPT !.logged = TRUE], file, k + 1, emptyDeleteFails, selectionTagged)
    ELSE LET o == Resolve(r.sc, file[k].obj)
             given == [descriptor |-> file[k].obj, side |-> <<SIDES.left>>]
             conName == compose_name(CONTROL, given)
             r1 == IF r.sc.nodes[o].shapes = <<>>
                   THEN IF emptyDeleteFails THEN HostFailsWith(r, "TypeError") ELSE r
                   ELSE SetNode(r, o, [r.sc.nodes[o] EXCEPT !.shapes = <<>>])
             r2 == Then(r1, LAMBDA x : Control_new(x, conName, selectionTagged))
             r3 == Then(r2, LAMBDA x : load_entry(x, Resolve(x.sc, conName), file[k].shapes))
         IN  load_from(r3, file, k + 1, emptyDeleteFails, selectionTagged)

\* Control.load_shapes() with the content of the file the user picks
load_shapes(r, file, emptyDeleteFails, selectionTagged) ==
    load_from(r, file, 1, emptyDeleteFails, selectionTagged)

----------------------------------------------------------------------------
(* rig/maya/optimize.py and SkinCluster.getSkin                            *)

\* delete_unknown_nodes, the loop: resp is the answer of the host to the
\* unlocking and deleting of a node
RECURSIVE delete_from(_, _)
delete_from(r, k) ==
    IF k > Len(r.sc.unknown) THEN r
    ELSE IF r.sc.unknown[k].resp = "ok"
    THEN delete_from([r EXCEPT !.sc.unknown =
                         [i \in 1..(Len(@) - 1) |-> IF i < k THEN @[i] ELSE @[i + 1]]], k)
    ELSE IF r.sc.unknown[k].resp = "RuntimeError"
    THEN delete_from([r EXCEPT !.host = TRUE, !.caught = TRUE, !.logged = TRUE], k + 1)
    ELSE delete_from([r EXCEPT !.host = TRUE, !.caught = TRUE], k + 1)

\* optimize.delete_unknown_nodes()
delete_unknown_nodes(r) == delete_from(r, 1)

\* SkinCluster.getSkin(meshShape) on the one mesh: the cluster found (None:
\* <<>>) and the run state; queryFails is the host failing the query of
\* the geometry of a cluster
getSkin(r, clusters, queryFails) ==
    IF clusters = <<>> THEN [r |-> r, ret |-> None]
    ELSE IF queryFails
    THEN [r |-> [r EXCEPT !.host = TRUE, !.caught = TRUE], ret |-> None]
    ELSE [r |-> r, ret |-> <<clusters[1].name>>]

----------------------------------------------------------------------------
(* The node specification: the operations of MayaBaseNode and Control, the *)
(* dag queries, delete_unknown_nodes and getSkin, called on a small scene  *)
(* with names of nodes that are there and of nodes that are not.           *)

MaxSteps == 2

GrpName == <<"grp">>
NullName == <<"null", "fk", "arm", "l">>
CtrlName == <<"ctrl", "fk", "arm", "l">>
JntName == <<"jnt", "def", "arm", "l">>
GrpCtrlName == <<"ctrl", "grp", "l">>
Ghost == <<"ghost">>

\* the names the callers pass
NameArgs == {GrpName, JntName, Ghost}

\* the scene: a group, under it a control with one shape, with or without
\* a null above it, a joint, a second control, and the unknown nodes
NodeScene(withNull, unknown) ==
    [EmptyScene EXCEPT
       !.nodes = <<Node(GrpName, 0, "transform", 1),
                   Node(NullName, IF withNull THEN 1 ELSE 0, "transform", 2),
                   [Node(CtrlName, IF withNull THEN 2 ELSE 1, "transform", 2)
                      EXCEPT !.shapes = <<"old">>, !.ctl = TRUE,
                             !.color = COL_TO_INT.yellow],
                   Node(JntName, 0, "joint", 3),
                   [Node(GrpCtrlName, 0, "transform", 0) EXCEPT !.ctl = TRUE]>>,
       !.unknown = unknown]

Unknown(nm, resp) == [name |-> nm, resp |-> resp]

\* the same nodes with the group under the null and the control under the
\* group: a null that is not the parent of the control
GapScene ==
    [NodeScene(FALSE, <<>>) EXCEPT !.nodes[1].parent = 2]

NodeScenes ==
    {NodeScene(TRUE, <<>>), GapScene,
     NodeScene(FALSE, <<Unknown("uA", "RuntimeError"), Unknown("uB", "ok")>>),
     NodeScene(TRUE, <<Unknown("uA", "ok"), Unknown("uB", "ValueError")>>)}

\* the control the operations are called on
TheControl == Resolve(scene, CtrlName)

\* the end of an operation
Returns(op, r, args, ret) ==
    /\ scene' = r.sc
    /\ gres' = [Result(op, r, args, \E k \in 1..Len(args) : ~objExists(scene, args[k]), ret)
                  EXCEPT !.steps = gres.steps + 1]
    /\ UNCHANGED <<library, rig, skins, joints, meshCount, wfile, sres, passed, nvars, ovars>>

Ready == gres.steps < MaxSteps

\* the lists of one or two distinct names
NameLists == {<<a>> : a \in NameArgs} \cup
             {<<a, b>> : <<a, b>> \in {t \in NameArgs \X NameArgs : t[1] # t[2]}}

\* dag.get_positions(nodes)
GetPositions ==
    /\ Ready
    /\ \E nodes \in NameLists :
         LET r == process_nodes(Run(scene), nodes)
         IN  Returns("get_positions", r, nodes,
                     IF r.err = "none" THEN get_positions(scene, nodes) ELSE <<>>)

\* MayaBaseNode(name)
NewNode ==
    /\ Ready
    /\ \E nm \in NameArgs :
         Returns("MayaBaseNode", MayaBaseNode_init(Run(scene), nm), <<nm>>, <<>>)

\* Control(name)
NewControl ==
    /\ Ready
    /\ \E nm \in NameArgs, selectionTagged \in BOOLEAN :
         Returns("Control", Control_new(Run(scene), nm, selectionTagged), <<nm>>, <<>>)

\* control.snap_to(name)
SnapTo ==
    /\ Ready
    /\ \E nm \in NameArgs :
         Returns("snap_to", snap_to(Run(scene), TheControl, nm), <<nm>>, <<>>)

\* control.space_switch(spaces)
SpaceSwitch ==
    /\ Ready
    /\ \E spaces \in NameLists :
         Returns("space_switch", space_switch(Run(scene), TheControl, spaces), spaces, <<>>)

\* control.drive_parented(name)
DriveParented ==
    /\ Ready
    /\ \E nm \in NameArgs :
         Returns("drive_parented", drive_parented(Run(scene), TheControl, nm), <<nm>>, <<>>)

\* control.drive_constrained(name, p, r, s)
DriveConstrained ==
    /\ Ready
    /\ \E nm \in NameArgs, p \in BOOLEAN, rot \in BOOLEAN, s \in BOOLEAN :
         Returns("drive_constrained",
                 drive_constrained(Run(scene), TheControl, nm, p, rot, s), <<nm>>, <<>>)

\* the files a user can pick: per object the shapes saved for it
ShapeEntry(obj) ==
    [obj |-> obj, shapes |-> <<[shape |-> "savedA", color |-> Named("yellow")],
                               [shape |-> "savedB", color |-> Numbered(COL_TO_INT.blue)]>>]

ShapeFiles == {<<ShapeEntry(a)>> : a \in {GrpName, Ghost}} \cup
              {<<ShapeEntry(Ghost), ShapeEntry(CtrlName)>>,
               <<ShapeEntry(GrpName), ShapeEntry(Ghost)>>}

\* Control.load_shapes()
LoadShapes ==
    /\ Ready
    /\ \E file \in ShapeFiles, emptyDeleteFails \in BOOLEAN, selectionTagged \in BOOLEAN :
         Returns("load_shapes",
                 load_shapes(Run(scene), file, emptyDeleteFails, selectionTagged),
                 [k \in 1..Len(file) |-> file[k].obj], <<>>)

\* the shape names the callers pass
ShapeArgs == {"circle", "Circle", "sphere", "star"}

\* control.set_shape(new_shape, replace)
SetShape ==
    /\ Ready
    /\ \E new_shape \in ShapeArgs, replace \in BOOLEAN :
         /\ scene' = set_shape(Run(scene), library, TheControl, new_shape, replace).sc
         /\ gres' = [Result("set_shape",
                            set_shape(Run(scene), library, TheControl, new_shape, replace),
                            <<<<new_shape>>>>, FALSE, <<>>)
                       EXCEPT !.steps = gres.steps + 1]
    /\ UNCHANGED <<library, rig, skins, joints, meshCount, wfile, sres, passed, nvars, ovars>>

\* node.parent = name, on the joint
SetParent ==
    /\ Ready
    /\ \E nm \in NameArgs :
         Returns("parent",
                 base_parent_set(Run(scene), Resolve(scene, JntName), Lookup(scene, nm)),
                 <<nm>>, <<>>)

\* control.parent = name
SetControlParent ==
    /\ Ready
    /\ \E nm \in NameArgs :
         Returns("control_parent",
                 control_parent_set(Run(scene), TheControl, Lookup(scene, nm)),
                 <<nm>>, <<>>)

\* optimize.delete_unknown_nodes()
DeleteUnknownNodes ==
    /\ Ready
    /\ Returns("delete_unknown_nodes", delete_unknown_nodes(Run(scene)), <<>>, <<>>)

\* SkinCluster.getSkin(mesh)
GetSkin ==
    /\ Ready
    /\ \E queryFails \in BOOLEAN :
         LET out == getSkin(Run(scene), skins, queryFails)
         IN  Returns("getSkin", out.r, <<>>, out.ret)

\* a path is the sequence of its characters; os.path.dirname(path)
LastSlash(path) ==
    IF \E i \in 1..Len(path) : path[i] = "/"
    THEN CHOOSE i \in 1..Len(path) : path[i] = "/" /\ \A j \in (i + 1)..Len(path) : path[j] # "/"
    ELSE 0

RECURSIVE RStripSlash(_)
RStripSlash(head) ==
    IF head # <<>> /\ head[Len(head)] = "/" THEN RStripSlash(SubSeq(head, 1, Len(head) - 1))
    ELSE head

dirname(path) ==
    LET head == SubSeq(path, 1, LastSlash(path))
    IN  IF \A i \in 1..Len(head) : head[i] = "/" THEN head ELSE RStripSlash(head)

\* os.path.join(a, b) of a directory and a relative name
join(a, b) ==
    IF a = <<>> THEN b
    ELSE IF a[Len(a)] = "/" THEN a \o b ELSE a \o <<"/">> \o b

EXT == <<".shapes">>

\* Control.get_default_path(): the directory name, a string, is unpacked
\* into two names, which works for a string of two characters only
get_default_path(r, scene_path) ==
    LET d == dirname(scene_path)
    IN  IF Len(d) # 2 THEN [r |-> Raise(r, "ValueError"), path |-> <<>>]
        ELSE LET scene_dir == <<d[1]>>
                 scene_name == IF d[2] = "." THEN <<>> ELSE <<d[2]>>
             IN  [r |-> r, path |-> join(scene_dir, scene_name \o EXT)]

\* Control.get_controls(): Control(c) of every controller of the scene
RECURSIVE get_controls(_, _)
get_controls(r, k) ==
    IF r.err # "none" \/ k > Len(r.sc.nodes) THEN r
    ELSE IF ~r.sc.nodes[k].ctl THEN get_controls(r, k + 1)
    ELSE get_controls(Control_new(r, r.sc.nodes[k].name, FALSE), k + 1)

\* the entries save_shapes collects: per control its shapes, each with the
\* colour of the control when its override is on, 'yellow' otherwise
shapes_data(sc) ==
    LET ctrls == {i \in Ids(sc) : sc.nodes[i].ctl}
        saved(i) == [j \in 1..Len(sc.nodes[i].shapes) |->
                       [shape |-> sc.nodes[i].shapes[j],
                        color |-> IF sc.nodes[i].color = 0 THEN Named("yellow")
                                  ELSE Numbered(sc.nodes[i].color)]]
    IN  {[obj |-> sc.nodes[i].name, shapes |-> saved(i)] : i \in ctrls}

\* open(path, 'rb') followed by pickle.dump: a missing file cannot be opened
\* for reading, an existing one is opened without the right to write
open_rb_dump(r, fileExists) ==
    IF fileExists THEN Raise(r, "IOError") ELSE Raise(r, "IOError")

\* Control.save_shapes(): the run state and the content of the shapes file
\* afterwards (old is its content before).  The curveInfo node made for a
\* shape is deleted again
save_shapes(r, scene_path, fileExists, old) ==
    LET r1 == get_controls(r, 1)
        data == shapes_data(r1.sc)
        p == get_default_path(r1, scene_path)
        r2 == IF r1.err # "none" THEN r1
              ELSE IF p.r.err # "none" THEN p.r
              ELSE open_rb_dump(p.r, fileExists)
    IN  [r |-> r2, file |-> IF r2.err = "none" THEN <<data>> ELSE old]

\* the paths of the scene file: a scene never saved, and saved scenes
ScenePaths == {<<>>, <<"/", "a", "/", "s", ".", "m", "a">>,
               <<"/", "p", "j", "/", "s", ".", "m", "a">>}

\* Control.save_shapes()
SaveShapes ==
    /\ Ready
    /\ \E scene_path \in ScenePaths, fileExists \in BOOLEAN :
         LET out == save_shapes(Run(scene), scene_path, fileExists,
                                IF fileExists THEN <<{}>> ELSE <<>>)
         IN  Returns("save_shapes", out.r, <<>>, out.file)

\* RootRig.create_root_joint: self.naming is read; namingSet tells whether
\* BaseRig.__init__ has set it.  The keyword 'description' is none of the
\* keys of compose_name
create_root_joint(r, namingSet) ==
    IF ~namingSet THEN Raise(r, "AttributeError")
    ELSE [r EXCEPT !.sc.nodes =
            Append(@, Node(compose_name(None, [node_type |-> <<"joint">>, role |-> <<"def">>,
                                               description |-> <<"root">>]),
                           0, "joint", 0))]

\* RootRig.__init__(joints): the run state and the joints and root of the
\* new rig; create_root_joint runs before BaseRig.__init__
RootRig_init(r, js) ==
    LET r1 == IF js = <<>> THEN create_root_joint(r, FALSE) ELSE r
        js1 == IF js = <<>> THEN <<r1.sc.nodes[Len(r1.sc.nodes)].name>> ELSE js
    IN  IF r1.err # "none" THEN [r |-> r1, rig |-> <<>>]
        ELSE [r |-> r1, rig |-> <<[joints |-> js1, root |-> js1[1]]>>]

\* RootRig(joints), without joints or with the joint of the scene
NewRootRig ==
    /\ Ready
    /\ \E js \in {<<>>, <<JntName>>} :
         LET out == RootRig_init(Run(scene), js)
         IN  Returns("RootRig", out.r, js, out.rig)

MaxOffset == 2

\* control.offset(n), on the control under the group or the one at the
\* world; the number n is kept with the outcome
Offset ==
    /\ Ready
    /\ \E nm \in {CtrlName}, n \in 0..MaxOffset :
         Returns("offset",
                 offset(Run(scene), Resolve(scene, nm), Control_init(nm, EmptyDict), n),
                 <<nm>>, <<n>>)

\* control.null, read; a node is reported by its number, None by 0
ReadNull ==
    /\ Ready
    /\ \E nm \in {CtrlName} :
         Returns("null", Run(scene), <<nm>>, <<null(scene, Resolve(scene, nm))>>)

NodesInit ==
    /\ scene \in NodeScenes
    /\ library \in Libraries
    /\ rig = NoRig
    /\ gres = Result("none", Run(EmptyScene), <<>>, FALSE, <<>>)
    /\ joints = {jA}
    /\ meshCount = 1
    /\ skins \in {<<>>, <<Bind(<<jA>>, 1, "skinCluster1")>>}
    /\ wfile = NoFile
    /\ sres = Did("none", "none")
    /\ passed = NotPassed
    /\ NamingIdle

NodesNext ==
    \/ GetPositions
    \/ NewNode
    \/ NewControl
    \/ SnapTo
    \/ SpaceSwitch
    \/ DriveParented
    \/ DriveConstrained
    \/ LoadShapes
    \/ SetShape
    \/ SetParent
    \/ SetControlParent
    \/ DeleteUnknownNodes
    \/ GetSkin
    \/ Offset
    \/ ReadNull
    \/ NewRootRig
    \/ SaveShapes

SpecNodes == NodesInit /\ [][NodesNext]_vars

----------------------------------------------------------------------------
(* rig/config/naming.py: the properties of a Naming object.  An object is  *)
(* [name |-> its _name, f |-> its token fields].                           *)

\* Naming(nm)
Naming_new(nm) == [name |-> nm, f |-> Naming_init(nm, EmptyDict)]

\* the setters' last line: the name is composed again from as_dict()
recompose(o) == [o EXCEPT !.name = compose_name(None, as_dict(o.f))]

\* Naming.node_type (setter)
node_type_set(o, v) ==
    IF v = o.f["node_type"] THEN o
    ELSE recompose([o EXCEPT !.f["node_type"] = Get(NODETYPES, v)])

\* Naming.side (setter)
side_set(o, v) ==
    IF v = o.f["side"] THEN o
    ELSE recompose([o EXCEPT !.f["side"] = Get(SIDES, v)])

\* mutation: the region is stored and the name is left as it was
region_set_stale(o, v) ==
    IF v = o.f["region"] THEN o ELSE [o EXCEPT !.f["region"] = v]

\* Naming.region (setter)
region_set(o, v) ==
    IF v = o.f["region"] THEN o ELSE recompose([o EXCEPT !.f["region"] = v])

\* Naming.descriptor (setter)
descriptor_set(o, v) ==
    IF v = o.f["descriptor"] THEN o ELSE recompose([o EXCEPT !.f["descriptor"] = v])

\* Naming.role (setter)
role_set(o, v) ==
    IF v = o.f["role"] THEN o ELSE recompose([o EXCEPT !.f["role"] = v])

\* Naming.region, lines 141-148: the pattern of region token t matches at
\* the start of word w of the model
RegionHit(w, t) ==
    CASE w = "tp" -> t = "tp"
      [] w = "bt" -> t = "bt"
      [] w = "ot" -> t = "ot"
      [] w \in {"in", "inner"} -> t = "in"
      [] OTHER -> FALSE

\* every order REGIONS.values() can list the tokens in
RegionOrders == Orderings(Values(REGIONS))

\* Naming.region (getter) on an object with fields f and name nm
region_get(f, nm, order) ==
    LET hits == {i \in 1..Len(order) : \E k \in 2..Len(nm) : RegionHit(nm[k], order[i])}
    IN  IF Truthy(f["region"]) \/ hits = {} THEN f["region"]
        ELSE <<"", order[CHOOSE h \in hits : \A g \in hits : h <= g]>>

\* the object after its side, its region was read: the match is stored
side_read(o, order) == [o EXCEPT !.f["side"] = side_get(o.f, o.name, order)]
region_read(o, order) == [o EXCEPT !.f["region"] = region_get(o.f, o.name, order)]

----------------------------------------------------------------------------
(* The token specification: a Naming object is built from an existing name *)
(* and its properties are assigned and read.                               *)

MaxCalls == 2

\* the names: all five tokens, four tokens, the side pattern inside a
\* word, three words no table knows, the region pattern inside a word, one
\* word
TokenNames == {<<"jnt", "def", "lip", "tp", "l">>, <<"jnt", "def", "arm", "l">>,
               <<"jnt", "lip">>, <<"upper", "lip", "corner">>, <<"jnt", "inner">>,
               <<"spine">>}

TokensInit ==
    /\ \E nm \in TokenNames :
         /\ naming = Naming_new(nm)
         /\ twin = Naming_new(nm)
    /\ tres = Access("new", "", None, None)
    /\ kwargs = EmptyDict
    /\ name = EmptyStr
    /\ fields = NoFields
    /\ npc = "idle"
    /\ SkinIdle
    /\ SceneIdle

\* the end of an assignment of v to the property key
Assigned(key, v, after, twinAfter) ==
    /\ naming' = after
    /\ twin' = twinAfter
    /\ tres' = [Access("set", key, v, None) EXCEPT
                  !.steps = tres.steps + 1,
                  !.changed = tres.changed \/ v # naming.f[key],
                  !.reads = tres.reads]
    /\ UNCHANGED NotTokens

\* the end of a read that returned ret
Read(key, after, ret) ==
    /\ naming' = after
    /\ tres' = [Access("get", key, None, ret) EXCEPT
                  !.steps = tres.steps + 1,
                  !.changed = tres.changed,
                  !.reads = tres.reads + 1]
    /\ UNCHANGED <<twin, NotTokens>>

\* naming.node_type = v
SetNodeType ==
    /\ tres.steps < MaxCalls
    /\ \E v \in {None, <<"joint">>, <<"ctrl">>} :
         Assigned("node_type", v, node_type_set(naming, v), node_type_set(twin, v))

\* naming.role = v
SetRole ==
    /\ tres.steps < MaxCalls
    /\ \E v \in {None, <<"fk">>} :
         Assigned("role", v, role_set(naming, v), role_set(twin, v))

\* naming.descriptor = v
SetDescriptor ==
    /\ tres.steps < MaxCalls
    /\ \E v \in {<<"arm">>, <<"lip">>} :
         Assigned("descriptor", v, descriptor_set(naming, v), descriptor_set(twin, v))

\* naming.region = v
SetRegion ==
    /\ tres.steps < MaxCalls
    /\ \E v \in {None, <<"top">>, <<"bt">>} :
         Assigned("region", v, region_set(naming, v), region_set(twin, v))

\* naming.side = v
SetSide ==
    /\ tres.steps < MaxCalls
    /\ \E v \in {None, <<"left">>, <<"r">>} :
         Assigned("side", v, side_set(naming, v), side_set(twin, v))

\* naming.side, read
ReadSide ==
    /\ tres.steps < MaxCalls
    /\ \E order \in SideOrders :
         Read("side", side_read(naming, order), side_get(naming.f, naming.name, order))

\* naming.region, read
ReadRegion ==
    /\ tres.steps < MaxCalls
    /\ \E order \in RegionOrders :
         Read("region", region_read(naming, order),
              region_get(naming.f, naming.name, order))

TokensNext ==
    \/ SetNodeType
    \/ SetRole
    \/ SetDescriptor
    \/ SetRegion
    \/ SetSide
    \/ ReadSide
    \/ ReadRegion

SpecTokens == TokensInit /\ [][TokensNext]_vars

----------------------------------------------------------------------------
(* Claims about the naming convention                                      *)

\* the keys of the last compose_name call that carry a non-empty value
Supplied == {k \in Keys : k \in DOMAIN kwargs /\ Truthy(kwargs[k])}

\* the short code a value of a key is written with in a name
ShortCode(key, v) ==
    IF Len(v) = 1 /\ v[1] \in DOMAIN TokenOrder(key)
    THEN <<TokenOrder(key)[v[1]]>> ELSE v

\* C1: decomposing the composed name gives the composed tokens back: every
\* supplied key holds the short code of its value, every other key is None.
C1_RoundTrip ==
    (npc = "decomposed" /\ Supplied # {} /\ Supplied = DOMAIN kwargs)
        => \A k \in Keys :
              fields[k] = IF k \in Supplied THEN ShortCode(k, kwargs[k]) ELSE None

\* the supplied keys in schema order
SuppliedInOrder == SelectSeq(TokenKeys, LAMBDA k : k \in Supplied)

RECURSIVE Flatten(_)
Flatten(ss) == IF ss = <<>> THEN <<>> ELSE Head(ss) \o Flatten(Tail(ss))

ExpectedName ==
    IF Supplied = {} THEN EmptyStr
    ELSE Flatten([i \in 1..Len(SuppliedInOrder) |->
                    ShortCode(SuppliedInOrder[i], kwargs[SuppliedInOrder[i]])])

DocExample == [node_type |-> <<"joint">>, role |-> <<"def">>,
               descriptor |-> <<"lip">>, region |-> <<"top">>, side |-> <<"left">>]

\* the keyword arguments with every human word replaced by its short code
Shortened == [k \in DOMAIN kwargs |->
                IF kwargs[k] = None THEN None ELSE ShortCode(k, kwargs[k])]

\* C2: compose_name writes the non-empty tokens in schema order, joined by
\* the delimiter, each by its short code (a value no table knows unchanged);
\* the documented example gives jnt_def_lip_tp_l and the short codes give
\* the same name as the human words.
C2_ComposeOrderAndCodes ==
    npc = "composed" =>
        /\ name = ExpectedName
        /\ kwargs = DocExample => name = <<"jnt", "def", "lip", "tp", "l">>
        /\ compose_name(None, Shortened) = name

C2_Witness ==
    /\ npc = "composed"
    /\ kwargs = DocExample
    /\ name = <<"jnt", "def", "lip", "tp", "l">>

----------------------------------------------------------------------------
(* Claims about the skin-weight import and export                          *)

Imports == {"createAndImport", "importWeights"}

\* C3: an import from a file whose blend-weight count differs from the
\* vertex count of the mesh ends in RuntimeError and leaves the skin
\* clusters of the scene (their existence, weights, blend weights and
\* attributes) as they were.  importWeights is a method of an object that
\* exists only for a mesh with a cluster.
C3_MismatchRaises ==
    [][(/\ sres'.op \in Imports
        /\ wfile.present
        /\ Len(wfile.data.blendWeights) # meshCount
        /\ sres'.op = "importWeights" => skins # <<>>)
       => (sres'.outcome = "RuntimeError" /\ skins' = skins)]_vars

C3_Witness ==
    /\ sres = Did("createAndImport", "RuntimeError")
    /\ wfile.present
    /\ Len(wfile.data.blendWeights) = 2
    /\ meshCount = 1
    /\ skins = <<>>

\* C4: the data an import passes to setData names only joints of the scene
\* (by their names without namespace).
C4_JointsExist ==
    passed.reached => DOMAIN passed.data.weights \subseteq Stripped(joints)

\* C8: importing the file that was exported from the cluster as it is now
\* leaves every influence weight and every blend weight as it was.
C8_RoundTrip ==
    [][(/\ sres' = Did("importWeights", "ok")
        /\ skins # <<>>
        /\ wfile = File(getData(skins[1])))
       => (/\ skins'[1].weights = skins[1].weights
           /\ skins'[1].blend = skins[1].blend)]_vars

----------------------------------------------------------------------------
(* Claims about FkChain                                                    *)

Installed == gres.op = "install" /\ gres.outcome = "ok"

\* the joint is a roll joint: its role token is 'roll'
IsRoll(jn) == Naming_init(jn, EmptyDict)["role"] = <<"roll">>

\* the place of joint number k of the rig
JointPos(k) == scene.nodes[Resolve(scene, rig.joints[k])].pos

\* a null: a node named as a null, without shapes, that is no controller
IsNullNode(n) ==
    /\ n \in Ids(scene)
    /\ HasNULL(scene.nodes[n].name)
    /\ scene.nodes[n].shapes = <<>>
    /\ ~scene.nodes[n].ctl

\* C9: after install no control of the rig stands at a roll joint, that is,
\* no control was created for a roll joint
C9_RollSkipped ==
    Installed =>
        \A k \in 1..Len(rig.joints) :
            IsRoll(rig.joints[k]) =>
                \A i \in 1..Len(rig.controls) :
                    scene.nodes[rig.controls[i]].pos # JointPos(k)

----------------------------------------------------------------------------
(* Claims about missing objects, missing shapes and host failures          *)

\* the operations that are handed names of scene objects
NamedOps == {"get_positions", "MayaBaseNode", "Control", "snap_to", "space_switch",
             "drive_parented", "drive_constrained", "load_shapes"}

\* those of them that raise on a name no node has
RaisingOps == NamedOps \ {"drive_constrained", "load_shapes"}

\* C5, as stated: an operation that is given the name of a scene object
\* that does not exist raises, and leaves the scene as it was
C5_MissingRaises ==
    [][(gres'.op \in NamedOps /\ gres'.missing)
       => (gres'.outcome # "ok" /\ scene' = scene)]_vars

\* C5, amended: given the name of an object that does not exist, the dag
\* queries, the constructors, snap_to, space_switch and drive_parented raise
\* and leave the scene as it was; drive_constrained returns normally and
\* leaves the scene as it was; load_shapes given only such names logs an
\* error for them, returns normally and leaves the scene as it was
C5_MissingRaisesOrSkips ==
    [][(gres'.op \in NamedOps /\ gres'.missing)
       => /\ gres'.op \in RaisingOps
               => (gres'.outcome \in {"RuntimeError", "AssertionError"} /\ scene' = scene)
          /\ gres'.op = "drive_constrained" => (gres'.outcome = "ok" /\ scene' = scene)
          /\ (/\ gres'.op = "load_shapes"
              /\ \A k \in 1..Len(gres'.arg) : ~objExists(scene, gres'.arg[k]))
               => (gres'.outcome = "ok" /\ gres'.logged /\ scene' = scene)]_vars

C5_Witness ==
    /\ gres.op = "drive_parented"
    /\ gres.missing
    /\ gres.outcome = "RuntimeError"
    /\ ~gres.host

\* the shapes under the control
ControlShapes(sc) == sc.nodes[Resolve(sc, CtrlName)].shapes

\* set_shape was called with a name the library has no entry for
NoEntry(shape) == ~library.present \/ shape \notin DOMAIN library.shapes

\* C6, as stated: set_shape with a name other than 'circle' that the
\* library has no entry for raises, and the shapes under the control stay
C6_MissingShapeRaises ==
    [][(gres'.op = "set_shape" /\ gres'.arg[1][1] # "circle" /\ NoEntry(gres'.arg[1][1]))
       => (gres'.outcome # "ok" /\ ControlShapes(scene') = ControlShapes(scene))]_vars

\* C6, amended: set_shape with a name that is not 'circle' in any letter
\* case and that the library has no entry for raises, and the shapes under
\* the control stay
C6_MissingShapeRaisesAnyCase ==
    [][(/\ gres'.op = "set_shape"
        /\ Lower(gres'.arg[1][1]) # "circle"
        /\ NoEntry(gres'.arg[1][1]))
       => (/\ gres'.outcome \in {"AssertionError", "KeyError"}
           /\ ControlShapes(scene') = ControlShapes(scene)
           /\ scene' = scene)]_vars

C6_Witness ==
    /\ gres.op = "set_shape"
    /\ gres.arg = <<<<"star">>>>
    /\ gres.outcome = "KeyError"
    /\ library.present
    /\ ControlShapes(scene) = <<"old">>

\* C7, as stated: an operation during which a call into the host failed
\* does not return normally
C7_HostFailurePropagates == gres.host => gres.outcome # "ok"

\* the unknown nodes the host refuses to delete
Refused(unknown) == SelectSeq(unknown, LAMBDA u : u.resp # "ok")

\* C7, amended: a failure of the host reaches the caller, except that the
\* parent setters catch it, log a warning and return with the scene as it
\* was (offset, which assigns through them, then returns normally too), delete_unknown_nodes catches it and returns with the refused nodes
\* still there, and getSkin catches it and returns None
C7_HostFailureCaughtOrPropagates ==
    [][gres'.host
       => IF gres'.op \in {"parent", "control_parent"}
          THEN gres'.outcome = "ok" /\ gres'.caught /\ gres'.logged /\ scene' = scene
          ELSE IF gres'.op = "offset"
          THEN gres'.outcome = "ok" /\ gres'.caught /\ gres'.logged
          ELSE IF gres'.op = "delete_unknown_nodes"
          THEN /\ gres'.outcome = "ok" /\ gres'.caught
               /\ scene'.unknown = Refused(scene.unknown)
               /\ scene'.nodes = scene.nodes
          ELSE IF gres'.op = "getSkin"
          THEN gres'.outcome = "ok" /\ gres'.caught /\ gres'.ret = None /\ scene' = scene
          ELSE gres'.outcome # "ok" /\ ~gres'.caught]_vars

C7_Witness ==
    /\ gres.op = "parent"
    /\ gres.host
    /\ gres.caught
    /\ gres.outcome = "ok"

----------------------------------------------------------------------------
(* Claims about Control.offset and Control.null                            *)

\* the ancestors of node i, nearest first
RECURSIVE Ancestors(_, _)
Ancestors(sc, i) ==
    IF sc.nodes[i].parent = 0 THEN <<>>
    ELSE <<sc.nodes[i].parent>> \o Ancestors(sc, sc.nodes[i].parent)

\* the ancestors of node i that are nulls
NullAncestors(sc, i) == SelectSeq(Ancestors(sc, i), LAMBDA a : HasNULL(sc.nodes[a].name))

\* C11: after offset(n) the control has exactly n more null ancestors than
\* before, and they stand directly above it
C11_OffsetAddsNulls ==
    [][(gres'.op = "offset" /\ gres'.outcome = "ok")
       => LET c == Resolve(scene, gres'.arg[1])
              n == gres'.ret[1]
          IN  /\ Len(NullAncestors(scene', c)) = Len(NullAncestors(scene, c)) + n
              /\ \A k \in 1..n : HasNULL(scene'.nodes[Ancestors(scene', c)[k]].name)]_vars

\* the furthest ancestor of node i that is a null, 0 when it has none
FurthestNull(sc, i) ==
    IF NullAncestors(sc, i) = <<>> THEN 0
    ELSE NullAncestors(sc, i)[Len(NullAncestors(sc, i))]

\* C12: Control.null is the furthest ancestor of the control whose name
\* holds the null token, and None only when no ancestor is a null
C12_NullIsFurthest ==
    gres.op = "null" => gres.ret[1] = FurthestNull(scene, Resolve(scene, gres.arg[1]))

----------------------------------------------------------------------------
(* Claims about the properties of a Naming object                          *)

\* the side codes, and the strings that hold the delimiter: more than one
\* word
SideCodes == {<<c>> : c \in Values(SIDES)}
HoldsDelimiter(v) == Len(v) > 1

\* C13: the side read from a Naming object is one of the side codes or
\* None, never a string that holds the delimiter, and it is None when no
\* whole token of the name is a side code
C13_SideIsCode ==
    (tres.op = "get" /\ tres.key = "side")
        => /\ tres.ret \in SideCodes \cup {None}
           /\ ~HoldsDelimiter(tres.ret)
           /\ (\A k \in 1..Len(naming.name) : <<naming.name[k]>> \notin SideCodes)
                => tres.ret = None

\* C17: once an assignment has changed a value, and no property was read,
\* the name is the one compose_name makes of as_dict() after every
\* assignment
C17_NameFollowsTokens ==
    (tres.op = "set" /\ tres.changed /\ tres.reads = 0)
        => naming.name = compose_name(None, as_dict(naming.f))

C17_Witness ==
    /\ tres.op = "set"
    /\ tres.key = "region"
    /\ tres.val = <<"top">>
    /\ tres.steps = 2
    /\ tres.reads = 0
    /\ tres.changed
    /\ naming.f["region"] = <<"top">>
    /\ naming.name = <<"jnt", "fk", "inner", "tp">>

\* C18: reading side or region changes neither as_dict() nor the name, and
\* the name after any calls is the name the same assignments give without
\* the reads
C18_ReadsAreFree ==
    [][/\ tres'.op = "get" => (naming'.f = naming.f /\ naming'.name = naming.name)
       /\ naming'.name = twin'.name]_vars

\* s is t with some words left out
RECURSIVE IsSubsequence(_, _)
IsSubsequence(s, t) ==
    IF s = <<>> THEN TRUE
    ELSE IF t = <<>> THEN FALSE
    ELSE IF Head(s) = Head(t) THEN IsSubsequence(Tail(s), Tail(t))
    ELSE IsSubsequence(s, Tail(t))

\* the words of name nm without the token the object holds for key
OtherTokens(o, key) ==
    IF Truthy(o.f[key]) /\ Len(o.f[key]) = 1 THEN Remove(o.name, o.f[key][1]) ELSE o.name

\* C19: the first assignment of a new value to a token of an object built
\* from a name gives a name that holds the value's code and, in their
\* order, every other token of the original name
C19_SetterKeepsOthers ==
    [][(tres.op = "new" /\ tres'.op = "set" /\ Truthy(tres'.val)
        /\ tres'.val # naming.f[tres'.key])
       => /\ IsSubsequence(Get(TokenOrder(tres'.key), tres'.val), naming'.name)
          /\ IsSubsequence(OtherTokens(naming, tres'.key), naming'.name)]_vars

----------------------------------------------------------------------------
(* Claims about FkChain.connect                                            *)

\* the parent constraints of control k on joint k, for every joint
PairConstraints ==
    {Constraint("parent", rig.controls[k], Resolve(scene, rig.joints[k])) :
         k \in 1..Len(rig.joints)}

\* C16, as stated: connect returns normally in any state after
\* construction, having made one parent constraint per control and joint
C16_ConnectAnyTime ==
    gres.op = "connect" => (gres.outcome = "ok" /\ scene.cons = PairConstraints)

\* C16, amended: after an install that returned, connect returns normally
\* and has made exactly one parent constraint per joint, of control k on
\* joint k; before it, connect raises AttributeError and makes nothing
C16_ConnectAfterInstall ==
    [][gres'.op = "connect"
       => IF rig.installed
          THEN /\ gres'.outcome = "ok"
               /\ Len(rig.controls) = Len(rig.joints)
               /\ scene'.cons = PairConstraints
               /\ Len(rig'.constraints) = Len(rig.joints)
               /\ scene'.nodes = scene.nodes
          ELSE gres'.outcome = "AttributeError" /\ scene' = scene /\ rig' = rig]_vars

C16_Witness ==
    /\ gres.op = "connect"
    /\ gres.outcome = "ok"
    /\ Len(rig.joints) = 2
    /\ Cardinality(scene.cons) = 2

----------------------------------------------------------------------------
(* Claims about RootRig                                                    *)

\* the name composed of node_type 'joint', role 'def', descriptor 'root'
RootName ==
    compose_name(None, [node_type |-> <<"joint">>, role |-> <<"def">>,
                        descriptor |-> <<"root">>])

\* C15: RootRig built with an empty joint list returns a rig whose root and
\* only joint is a joint it created at the origin under the composed name
C15_RootCreated ==
    (gres.op = "RootRig" /\ gres.arg = <<>>)
        => /\ gres.outcome = "ok"
           /\ Len(gres.ret) = 1
           /\ gres.ret[1].joints = <<RootName>>
           /\ gres.ret[1].root = RootName
           /\ \E i \in Ids(scene) : /\ scene.nodes[i].name = RootName
                                    /\ scene.nodes[i].kind = "joint"
                                    /\ scene.nodes[i].pos = 0

----------------------------------------------------------------------------
(* Claims about the shapes file                                            *)

\* the entries load_shapes reads back when every control's shapes were saved
ControlEntries(sc) ==
    {[obj |-> sc.nodes[i].name,
      shapes |-> [j \in 1..Len(sc.nodes[i].shapes) |->
                    [shape |-> sc.nodes[i].shapes[j],
                     color |-> IF sc.nodes[i].color = 0 THEN Named("yellow")
                               ELSE Numbered(sc.nodes[i].color)]]] :
       i \in {k \in Ids(sc) : sc.nodes[k].ctl}}

\* C14: save_shapes returns with the shapes file holding one entry per
\* control of the scene, each with the shapes and colour of its control
C14_ShapesSaved ==
    gres.op = "save_shapes"
        => /\ gres.outcome = "ok"
           /\ Len(gres.ret) = 1
           /\ gres.ret[1] = ControlEntries(scene)

====
